---- MODULE Spec2Model ----
(***************************************************************************)
(* A model of zk (src/main.go): the root resolver ZkRoot and the commands  *)
(* `zk serve` and `zk mv`, run against a small POSIX file tree.            *)
(*                                                                         *)
(* A Go string is a sequence of one-character strings, so that the byte    *)
(* slicing of main.go (desiredPath[:i], absFromPath[len(root):]) is        *)
(* modelled as the slicing it is.                                          *)
(***************************************************************************)
EXTENDS Integers, Sequences, FiniteSets, TLC

(***************************************************************************)
(* Strings                                                                 *)
(***************************************************************************)
Sep == <<"/">>
Dot == <<".">>
DotDot == <<".", ".">>
HtmlExt == <<".", "h", "t", "m", "l">>
IndexHtml == <<"i", "n", "d", "e", "x">> \o HtmlExt
SlashIndexHtml == Sep \o IndexHtml
ZK_ROOT_FILENAME == <<".", "z", "k", "-", "r", "o", "o", "t">>

\* byte values of the characters that occur in the modelled tree
Ord == [c \in {"-", ".", "/", "a", "d", "e", "h", "i", "k", "l", "m", "n",
               "o", "p", "r", "t", "x", "z"} |->
          CASE c = "-" -> 45 [] c = "." -> 46 [] c = "/" -> 47
            [] c = "a" -> 97 [] c = "d" -> 100 [] c = "e" -> 101
            [] c = "h" -> 104 [] c = "i" -> 105 [] c = "k" -> 107
            [] c = "l" -> 108 [] c = "m" -> 109 [] c = "n" -> 110
            [] c = "o" -> 111 [] c = "p" -> 112 [] c = "r" -> 114
            [] c = "t" -> 116 [] c = "x" -> 120 [] c = "z" -> 122]

\* Go s[lo:hi]
Slice(s, lo, hi) == SubSeq(s, lo + 1, hi)

\* strings.HasSuffix, strings.HasPrefix, strings.TrimSuffix
HasSuffix(s, suffix) ==
    /\ Len(s) >= Len(suffix)
    /\ Slice(s, Len(s) - Len(suffix), Len(s)) = suffix

HasPrefix(s, prefix) ==
    /\ Len(s) >= Len(prefix)
    /\ Slice(s, 0, Len(prefix)) = prefix

TrimSuffix(s, suffix) ==
    IF HasSuffix(s, suffix) THEN Slice(s, 0, Len(s) - Len(suffix)) ELSE s

\* strings.LastIndex(s, string(os.PathSeparator)): 0-based, -1 when absent
LastIndex(s, c) ==
    LET hits == {i \in 1..Len(s) : s[i] = c}
    IN  IF hits = {} THEN -1
        ELSE (CHOOSE i \in hits : \A j \in hits : j <= i) - 1

\* the elements of a path between separators, empty ones included
RECURSIVE Split(_)
Split(s) ==
    LET i == LastIndex(s, "/")
    IN  IF i = -1 THEN <<s>>
        ELSE Append(Split(Slice(s, 0, i)), Slice(s, i + 1, Len(s)))

RECURSIVE JoinSegs(_)
JoinSegs(segs) ==
    IF segs = <<>> THEN <<>>
    ELSE IF Len(segs) = 1 THEN segs[1]
    ELSE segs[1] \o Sep \o JoinSegs(Tail(segs))

\* filepath.Clean on a POSIX path
RECURSIVE CleanSegs(_, _, _)
CleanSegs(segs, stack, rooted) ==
    IF segs = <<>> THEN stack
    ELSE LET s == Head(segs)
             rest == Tail(segs)
         IN  IF s = <<>> \/ s = Dot THEN CleanSegs(rest, stack, rooted)
             ELSE IF s = DotDot
             THEN IF stack # <<>> /\ stack[Len(stack)] # DotDot
                  THEN CleanSegs(rest, Slice(stack, 0, Len(stack) - 1), rooted)
                  ELSE IF rooted THEN CleanSegs(rest, stack, rooted)
                  ELSE CleanSegs(rest, Append(stack, s), rooted)
             ELSE CleanSegs(rest, Append(stack, s), rooted)

Clean(path) ==
    IF path = <<>> THEN Dot
    ELSE LET rooted == path[1] = "/"
             out == JoinSegs(CleanSegs(Split(path), <<>>, rooted))
         IN  IF rooted THEN Sep \o out
             ELSE IF out = <<>> THEN Dot ELSE out

\* filepath.Join of two elements
Join(a, b) ==
    IF a = <<>> /\ b = <<>> THEN <<>>
    ELSE IF a = <<>> THEN Clean(b)
    ELSE IF b = <<>> THEN Clean(a)
    ELSE Clean(a \o Sep \o b)

RECURSIVE StripTrailingSeps(_)
StripTrailingSeps(s) ==
    IF s # <<>> /\ s[Len(s)] = "/"
    THEN StripTrailingSeps(Slice(s, 0, Len(s) - 1))
    ELSE s

\* filepath.Base
Base(path) ==
    IF path = <<>> THEN Dot
    ELSE LET p == StripTrailingSeps(path)
             q == Slice(p, LastIndex(p, "/") + 1, Len(p))
         IN  IF q = <<>> THEN Sep ELSE q

\* filepath.Dir
Dir(path) == Clean(Slice(path, 0, LastIndex(path, "/") + 1))


(***************************************************************************)
(* The file tree                                                           *)
(*                                                                         *)
(*   /p/index.html  /p/n/a/  /p/n/a.html  /p/n/index.html  /p/n/t          *)
(*   /p/r/z.html    and a .zk-root marker in some of /, /p, /p/n           *)
(*                                                                         *)
(* /p/n/index.html varies in its anchors and in its mode.                  *)
(*                                                                         *)
(* A file is its anchors (the <a> elements goquery finds in it, in         *)
(* document order) and what the file system lets the process do with it.   *)
(***************************************************************************)
DirP == Sep \o <<"p">>
DirN == DirP \o Sep \o <<"n">>
DirA == DirN \o Sep \o <<"a">>
DirR == DirP \o Sep \o <<"r">>
DocIndex == DirP \o SlashIndexHtml
DocA == DirN \o Sep \o <<"a">> \o HtmlExt
DocNIndex == DirN \o SlashIndexHtml
DocZ == DirR \o Sep \o <<"z">> \o HtmlExt
FileT == DirN \o Sep \o <<"t">>

\* hrefs that occur in the documents
HrefA == Sep \o <<"n">> \o Sep \o <<"a">> \o HtmlExt
HrefAPretty == Sep \o <<"n">> \o Sep \o <<"a">>
HrefN == Sep \o <<"n">>
HrefNIndex == Sep \o <<"n">> \o SlashIndexHtml
HrefABare == <<"n">> \o Sep \o <<"a">> \o HtmlExt
HrefAPrettyBare == <<"n">> \o Sep \o <<"a">>
HrefNBare == <<"n">>

\* elem.Attr("href") of an anchor: (href, exists)
Anchor(h) == [exists |-> TRUE, href |-> h]
NoHref == [exists |-> FALSE, href |-> <<>>]

\* "rw": readable and writable; "ro": os.Open succeeds, ioutil.WriteFile
\* fails; "noopen": os.Open fails; "noread": reading the opened file fails
Modes == {"rw", "ro", "noopen", "noread"}
File(anchors, mode) == [anchors |-> anchors, mode |-> mode]

\* the longest anchor list of the document whose content varies
MaxAnchors == 2

VarAnchors == {Anchor(HrefA), Anchor(HrefN), NoHref}
AnchorLists == UNION {[1..n -> VarAnchors] : n \in 0..MaxAnchors}

ZAnchors == <<Anchor(HrefA), Anchor(HrefAPretty), Anchor(HrefNIndex),
              Anchor(HrefN), Anchor(HrefABare), Anchor(HrefAPrettyBare),
              Anchor(HrefNBare), NoHref>>

AllDirs == {Sep, DirP, DirN, DirA, DirR}
MarkerSets == {{}, {Sep}, {DirP}, {DirN}, {Sep, DirP}, {DirP, DirN}}
WorkingDirs == {Sep, DirP, DirN}

Tree(markers, nIndexFile) ==
    LET paths == {DocIndex, DocA, DocNIndex, DocZ, FileT}
                   \cup {Join(d, ZK_ROOT_FILENAME) : d \in markers}
    IN  [f \in paths |->
           IF f = DocNIndex THEN nIndexFile
           ELSE IF f = DocA THEN File(<<NoHref>>, "rw")
           ELSE IF f = DocIndex
           THEN File(<<Anchor(HrefA), NoHref, Anchor(HrefN)>>, "rw")
           ELSE IF f = DocZ THEN File(ZAnchors, "rw")
           ELSE IF f = FileT THEN File(<<Anchor(HrefA), Anchor(HrefN)>>, "rw")
           ELSE File(<<>>, "rw")]

(***************************************************************************)
(* State                                                                   *)
(***************************************************************************)
VARIABLES
    cmd,                 \* os.Args[1]: "mv" or "serve"
    workingDir,          \* os.Getwd()
    fromPath,            \* os.Args[2] of mv; the --dir flag of serve
    toPath,              \* os.Args[3] of mv
    dirs,                \* the directories of the file system
    files,               \* the files of the file system
    files0,              \* history: the files when the command started
    pc,                  \* the command's position in main
    zkRootDirectory,     \* ZkRoot's result path
    zkRootErr,           \* ZkRoot returned an error
    absFromPath,
    absToPath,
    zkRelativeFromPath,
    zkRelativeToPath,
    walk,                \* the entries filepath.WalkDir has still to visit
    visited,             \* history: entries the callback was called on
    examined,            \* history: documents parsed by the callback
    writeCalls,          \* history: paths ioutil.WriteFile was called on
    renames,             \* history: number of os.Rename calls
    renameOk,            \* history: the os.Rename call returned nil
    exitCode             \* -1 while the process runs

vars == <<cmd, workingDir, fromPath, toPath, dirs, files, files0, pc,
          zkRootDirectory, zkRootErr, absFromPath, absToPath,
          zkRelativeFromPath, zkRelativeToPath, walk, visited, examined,
          writeCalls, renames, renameOk, exitCode>>

(***************************************************************************)
(* os.Stat and ZkRoot                                                      *)
(***************************************************************************)
Exists(path) == path \in dirs \/ path \in DOMAIN files

\* a relative path is resolved against the process's working directory
AbsOf(path) == IF HasPrefix(path, Sep) THEN path ELSE Join(workingDir, path)

\* the nearest existing ancestor-or-self of an absolute path
RECURSIVE NearestExisting(_)
NearestExisting(path) ==
    IF Exists(path) \/ path = Sep THEN path ELSE NearestExisting(Dir(path))

\* os.Stat's error: "nil", "ENOENT", or "ENOTDIR" when a file stands where
\* the path needs a directory
Stat(path) ==
    LET p == AbsOf(path)
    IN  IF Exists(p) THEN "nil"
        ELSE IF NearestExisting(p) \in DOMAIN files THEN "ENOTDIR"
        ELSE "ENOENT"

\* errors.Is(err, os.ErrNotExist): of the errno values only ENOENT
IsNotExist(err) == err = "ENOENT"

\* IsRootDir on a POSIX build (runtime.GOOS is not "windows")
IsRootDir(path) == path = Sep

RECURSIVE ZkRoot(_)
ZkRoot(desiredPath) ==
    LET zkPath == Join(desiredPath, ZK_ROOT_FILENAME)
        lastSeparatorIndex == LastIndex(desiredPath, "/")
    IN  IF IsNotExist(Stat(zkPath))
        THEN IF IsRootDir(desiredPath)
             THEN [err |-> TRUE, path |-> <<>>]
             ELSE IF lastSeparatorIndex = -1
             THEN [err |-> TRUE, path |-> <<>>]
             ELSE ZkRoot(Slice(desiredPath, 0, lastSeparatorIndex))
        ELSE [err |-> FALSE, path |-> desiredPath]


(***************************************************************************)
(* filepath.WalkDir: the root, then each directory's entries in the order  *)
(* of their names (byte-wise), a directory's content before its next       *)
(* sibling                                                                 *)
(***************************************************************************)
RECURSIVE NameLess(_, _)
NameLess(a, b) ==
    IF a = <<>> THEN b # <<>>
    ELSE IF b = <<>> THEN FALSE
    ELSE IF a[1] = b[1] THEN NameLess(Tail(a), Tail(b))
    ELSE Ord[a[1]] < Ord[b[1]]

RECURSIVE SegsLess(_, _)
SegsLess(a, b) ==
    IF a = <<>> THEN b # <<>>
    ELSE IF b = <<>> THEN FALSE
    ELSE IF a[1] = b[1] THEN SegsLess(Tail(a), Tail(b))
    ELSE NameLess(a[1], b[1])

WalkBefore(p, q) == SegsLess(Split(p), Split(q))

\* path is root or lies below it in the tree
Under(root, path) ==
    \/ path = root
    \/ HasPrefix(path, IF root = Sep THEN Sep ELSE root \o Sep)

RECURSIVE SortPaths(_)
SortPaths(S) ==
    IF S = {} THEN <<>>
    ELSE LET first == CHOOSE p \in S : \A q \in S \ {p} : WalkBefore(p, q)
         IN  <<first>> \o SortPaths(S \ {first})

WalkList(root) ==
    SortPaths({p \in dirs \cup DOMAIN files : Under(root, p)})

(***************************************************************************)
(* The anchor callback of mv (main.go 157-165)                             *)
(***************************************************************************)
hrefMatchesDirectoryIndex(href, from) ==
    Base(from) = IndexHtml /\ href = Dir(from)

\* a wrong extension length: four characters cut instead of five
hrefMatchesPageCutShort(href, from) ==
    HasSuffix(from, HtmlExt) /\ href = Slice(from, 0, Len(from) - 4)

hrefMatchesPageWithoutExtension(href, from) ==
    HasSuffix(from, HtmlExt) /\ href = Slice(from, 0, Len(from) - 5)

AnchorMatches(a, from) ==
    /\ a.exists
    /\ \/ a.href = from
       \/ hrefMatchesDirectoryIndex(a.href, from)
       \/ hrefMatchesPageWithoutExtension(a.href, from)

\* every parsed document counts as referencing the moved file
FoundReferenceAlways(anchors, from) == TRUE

\* foundReference after html.Find("a").Each
FoundReference(anchors, from) ==
    \E i \in DOMAIN anchors : AnchorMatches(anchors[i], from)

\* elem.SetAttr("href", zkRelativeToPath) on every matching anchor
SetAttrs(anchors, from, to) ==
    [i \in DOMAIN anchors |->
       IF AnchorMatches(anchors[i], from) THEN Anchor(to) ELSE anchors[i]]

\* the callback swallows its errors and returns nil
CallbackErrSwallowed(path) == FALSE

\* what the WalkDir callback returns for an entry: a non-nil error ends
\* the walk.  Reading a directory through os.Open fails like "noread".
CallbackErr(path) ==
    /\ HasSuffix(Base(path), HtmlExt)
    /\ \/ path \in dirs
       \/ files[path].mode \in {"noopen", "noread"}

\* the callback got as far as html.Find on this entry
Parsed(path) ==
    /\ HasSuffix(Base(path), HtmlExt)
    /\ ~CallbackErr(path)

\* the slice starts one character later and drops the separator
RelativeToWithoutSeparator(root, abs) == Slice(abs, Len(root) + 1, Len(abs))

\* zkRelativeFromPath / zkRelativeToPath before TrimSuffix: abs[len(root):]
RelativeTo(root, abs) == Slice(abs, Len(root), Len(abs))

\* the destination as written into hrefs (main.go 138)
WriteForm(rel) == TrimSuffix(rel, SlashIndexHtml)

\* os.Rename of a file: "nil" or the errno
RenameErr(from, to) ==
    IF Stat(from) # "nil" THEN Stat(from)
    ELSE IF from = to THEN "nil"
    ELSE IF Stat(Dir(to)) # "nil" THEN Stat(Dir(to))
    ELSE IF Dir(to) \notin dirs THEN "ENOTDIR"
    ELSE IF to \in dirs THEN "EISDIR"
    ELSE "nil"

\* the error of os.Rename goes unnoticed
RenameExitUnchecked(err) == 0

\* os.Exit status after os.Rename
RenameExit(err) == IF err = "nil" THEN 0 ELSE 1

(***************************************************************************)
(* Inputs                                                                  *)
(***************************************************************************)
Str(segs) == JoinSegs(segs)
NameA == <<"a">> \o HtmlExt

\* <<frompath, topath>> of `zk mv frompath topath`; every frompath names a
\* file or nothing, never a directory
MvArgs ==
    { <<Str(<<<<"n">>, NameA>>), Str(<<<<"r">>, NameA>>)>>,
      <<Str(<<<<"n">>, IndexHtml>>), Str(<<<<"r">>, IndexHtml>>)>>,
      <<Str(<<<<"n">>, NameA>>), Str(<<<<"n">>, <<"a">>, IndexHtml>>)>>,
      <<Str(<<<<"n">>, IndexHtml>>), IndexHtml>>,
      <<Str(<<<<"n">>, NameA>>), Str(<<<<"x">>, NameA>>)>>,
      <<Str(<<<<"n">>, <<"z">> \o HtmlExt>>), Str(<<<<"r">>, NameA>>)>>,
      <<Str(<<<<"n">>, NameA, IndexHtml>>), Str(<<<<"r">>, IndexHtml>>)>>,
      <<Str(<<DotDot, IndexHtml>>), <<"t">> \o HtmlExt>>,
      <<NameA, Str(<<DotDot, <<"r">>, NameA>>)>>,
      <<NameA, Str(<<DotDot, DotDot, <<"x">>>>)>>,
      <<Str(<<<<"p">>, <<"n">>, NameA>>), Str(<<<<"p">>, <<"r">>, NameA>>)>> }

\* the --dir flag of `zk serve`
ServeDirs == {Dot, DotDot, <<"n">>, Str(<<<<"n">>, NameA>>)}

Init ==
    /\ cmd \in {"mv", "serve"}
    /\ workingDir \in WorkingDirs
    /\ dirs = AllDirs
    /\ \E markers \in MarkerSets :
         IF cmd = "mv"
         THEN \E l \in AnchorLists, m \in Modes :
                files = Tree(markers, File(l, m))
         ELSE files = Tree(markers, File(<<>>, "rw"))
    /\ IF cmd = "mv"
       THEN \E args \in MvArgs : fromPath = args[1] /\ toPath = args[2]
       ELSE fromPath \in ServeDirs /\ toPath = <<>>
    /\ files0 = files
    /\ pc = "start"
    /\ zkRootDirectory = <<>>
    /\ zkRootErr = FALSE
    /\ absFromPath = <<>>
    /\ absToPath = <<>>
    /\ zkRelativeFromPath = <<>>
    /\ zkRelativeToPath = <<>>
    /\ walk = <<>>
    /\ visited = {}
    /\ examined = {}
    /\ writeCalls = {}
    /\ renames = 0
    /\ renameOk = FALSE
    /\ exitCode = -1

(***************************************************************************)
(* zk serve (main.go 88-115)                                               *)
(***************************************************************************)
\* main.go 95-105
ServeRoot ==
    /\ cmd = "serve" /\ pc = "start"
    /\ LET r == ZkRoot(Join(workingDir, fromPath))
       IN  /\ zkRootErr' = r.err
           /\ zkRootDirectory' = r.path
           /\ pc' = IF r.err THEN "done" ELSE "listen"
           /\ exitCode' = IF r.err THEN 1 ELSE exitCode
    /\ UNCHANGED <<cmd, visited, workingDir, fromPath, toPath, dirs, files, files0,
                   absFromPath, absToPath, zkRelativeFromPath,
                   zkRelativeToPath, walk, examined, writeCalls, renames,
                   renameOk>>

\* main.go 111-115: http.ListenAndServe returns only with an error
ServeListenError ==
    /\ cmd = "serve" /\ pc = "listen"
    /\ pc' = "done"
    /\ exitCode' = 1
    /\ UNCHANGED <<cmd, visited, workingDir, fromPath, toPath, dirs, files, files0,
                   zkRootDirectory, zkRootErr, absFromPath, absToPath,
                   zkRelativeFromPath, zkRelativeToPath, walk, examined,
                   writeCalls, renames, renameOk>>

(***************************************************************************)
(* zk mv (main.go 116-182)                                                 *)
(***************************************************************************)
\* main.go 124-133
MvRoot ==
    /\ cmd = "mv" /\ pc = "start"
    /\ LET r == ZkRoot(workingDir)
       IN  /\ zkRootErr' = r.err
           /\ zkRootDirectory' = r.path
           /\ pc' = IF r.err THEN "done" ELSE "paths"
           /\ exitCode' = IF r.err THEN 1 ELSE exitCode
    /\ UNCHANGED <<cmd, visited, workingDir, fromPath, toPath, dirs, files, files0,
                   absFromPath, absToPath, zkRelativeFromPath,
                   zkRelativeToPath, walk, examined, writeCalls, renames,
                   renameOk>>

\* main.go 134-138; a slice bound beyond the string's length is a run-time
\* panic, which ends the process with status 2
MvPaths ==
    /\ cmd = "mv" /\ pc = "paths"
    /\ LET from == Join(workingDir, fromPath)
           to == Join(workingDir, toPath)
           n == Len(zkRootDirectory)
       IN  /\ absFromPath' = from
           /\ absToPath' = to
           /\ IF Len(from) < n \/ Len(to) < n
              THEN /\ pc' = "done"
                   /\ exitCode' = 2
                   /\ UNCHANGED <<zkRelativeFromPath, zkRelativeToPath>>
              ELSE /\ zkRelativeFromPath' = RelativeTo(zkRootDirectory, from)
                   /\ zkRelativeToPath' =
                          WriteForm(RelativeTo(zkRootDirectory, to))
                   /\ pc' = "stat"
                   /\ UNCHANGED exitCode
    /\ UNCHANGED <<cmd, visited, workingDir, fromPath, toPath, dirs, files, files0,
                   zkRootDirectory, zkRootErr, walk, examined, writeCalls,
                   renames, renameOk>>

\* main.go 139-144: the existence check, then WalkDir starts at the root
MvStat ==
    /\ cmd = "mv" /\ pc = "stat"
    /\ IF IsNotExist(Stat(absFromPath))
       THEN /\ pc' = "done"
            /\ exitCode' = 1
            /\ UNCHANGED walk
       ELSE /\ pc' = "walk"
            /\ walk' = WalkList(zkRootDirectory)
            /\ UNCHANGED exitCode
    /\ UNCHANGED <<cmd, visited, workingDir, fromPath, toPath, dirs, files, files0,
                   zkRootDirectory, zkRootErr, absFromPath, absToPath,
                   zkRelativeFromPath, zkRelativeToPath, examined,
                   writeCalls, renames, renameOk>>

\* main.go 144-177: one call of the WalkDir callback
WalkStep ==
    /\ cmd = "mv" /\ pc = "walk"
    /\ LET path == Head(walk)
           doc == files[path]
           found == FoundReference(doc.anchors, zkRelativeFromPath)
       IN  IF CallbackErr(path)
           THEN /\ walk' = <<>>
                /\ visited' = visited \cup {path}
                /\ pc' = "rename"
                /\ UNCHANGED <<files, examined, writeCalls>>
           ELSE /\ walk' = Tail(walk)
                /\ visited' = visited \cup {path}
                /\ pc' = IF Tail(walk) = <<>> THEN "rename" ELSE "walk"
                /\ IF Parsed(path)
                   THEN /\ examined' = examined \cup {path}
                        /\ writeCalls' = IF found THEN writeCalls \cup {path}
                                         ELSE writeCalls
                        /\ files' =
                             IF found /\ doc.mode = "rw"
                             THEN [files EXCEPT ![path].anchors =
                                     SetAttrs(doc.anchors, zkRelativeFromPath,
                                              zkRelativeToPath)]
                             ELSE files
                   ELSE UNCHANGED <<files, examined, writeCalls>>
    /\ UNCHANGED <<cmd, workingDir, fromPath, toPath, dirs, files0,
                   zkRootDirectory, zkRootErr, absFromPath, absToPath,
                   zkRelativeFromPath, zkRelativeToPath, renames, renameOk,
                   exitCode>>

\* main.go 178-182
MvRename ==
    /\ cmd = "mv" /\ pc = "rename"
    /\ LET err == RenameErr(absFromPath, absToPath)
       IN  /\ renames' = renames + 1
           /\ renameOk' = (err = "nil")
           /\ exitCode' = RenameExit(err)
           /\ files' =
                IF err = "nil"
                THEN [p \in (DOMAIN files \ {absFromPath}) \cup {absToPath} |->
                        IF p = absToPath THEN files[absFromPath] ELSE files[p]]
                ELSE files
    /\ pc' = "done"
    /\ UNCHANGED <<cmd, visited, workingDir, fromPath, toPath, dirs, files0,
                   zkRootDirectory, zkRootErr, absFromPath, absToPath,
                   zkRelativeFromPath, zkRelativeToPath, walk, examined,
                   writeCalls>>

Next ==
    \/ ServeRoot
    \/ ServeListenError
    \/ MvRoot
    \/ MvPaths
    \/ MvStat
    \/ WalkStep
    \/ MvRename

Spec == Init /\ [][Next]_vars


(***************************************************************************)
(* Vocabulary of the properties                                            *)
(***************************************************************************)
IsHtmlName(path) == HasSuffix(Base(path), HtmlExt)
ExistedAtStart(path) == path \in dirs \/ path \in DOMAIN files0
HasMarker(dir) == Join(dir, ZK_ROOT_FILENAME) \in DOMAIN files0

\* the directory root resolution starts from
StartDir == IF cmd = "mv" THEN workingDir ELSE Join(workingDir, fromPath)

MarkedAncestors(dir) == {a \in dirs : Under(a, dir) /\ HasMarker(a)}
NearestMarked(dir) ==
    CHOOSE a \in MarkedAncestors(dir) :
        \A b \in MarkedAncestors(dir) : Len(b) <= Len(a)

\* the .html documents below the resolved root when the command started
DocsUnderRoot ==
    {d \in DOMAIN files0 : Under(zkRootDirectory, d) /\ IsHtmlName(d)}

\* every file can be opened, read and written
NoFileFails == \A f \in DOMAIN files0 : files0[f].mode = "rw"

\* opening or parsing this document fails
ReadFails(d) == files0[d].mode \in {"noopen", "noread"}

\* the walk gets to this entry: no document before it fails to open or parse
Reached(e) ==
    \A d \in DocsUnderRoot : WalkBefore(d, e) => ~ReadFails(d)

\* the set of hrefs taken to reference the project-relative path rel
LinkForms(rel) ==
    {rel}
      \cup (IF Base(rel) = IndexHtml THEN {Dir(rel)} ELSE {})
      \cup (IF HasSuffix(rel, HtmlExt)
            THEN {SubSeq(rel, 1, Len(rel) - Len(HtmlExt))} ELSE {})

HasLinkTo(d, rel) ==
    \E i \in DOMAIN files0[d].anchors :
        /\ files0[d].anchors[i].exists
        /\ files0[d].anchors[i].href \in LinkForms(rel)

\* the source and destination paths with the first len(root) characters
\* removed: they keep the separator that followed the root
SourceRel == SubSeq(absFromPath, Len(zkRootDirectory) + 1, Len(absFromPath))
DestRel == SubSeq(absToPath, Len(zkRootDirectory) + 1, Len(absToPath))

\* the same paths with the root's own separator removed as well
StripRoot(abs) ==
    LET prefix == IF zkRootDirectory = Sep THEN Sep
                  ELSE zkRootDirectory \o Sep
    IN  SubSeq(abs, Len(prefix) + 1, Len(abs))

\* the walk of mv is over and the rename has not happened
PassOver == cmd = "mv" /\ pc = "rename"

(***************************************************************************)
(* C1: for every starting directory with a marked ancestor-or-self, root   *)
(* resolution returns the nearest marked one, the file system root "/"     *)
(* included, and nothing else.                                             *)
(***************************************************************************)
C1_NearestMarkedRoot ==
    (pc # "start" /\ StartDir \in dirs /\ MarkedAncestors(StartDir) # {})
        => (~zkRootErr /\ zkRootDirectory = NearestMarked(StartDir))

(***************************************************************************)
(* C5: a mv whose root resolution fails or whose source path does not      *)
(* exist ends with exit code 1, and has written no document and renamed    *)
(* nothing.                                                                *)
(***************************************************************************)
C5_ValidationBeforeMutation ==
    (cmd = "mv" /\ (zkRootErr \/ ~ExistedAtStart(Join(workingDir, fromPath))))
        => /\ files = files0
           /\ writeCalls = {}
           /\ renames = 0
           /\ pc = "done" => exitCode = 1

(***************************************************************************)
(* C7: once a rewrite pass has completed, a second pass looking for the    *)
(* same source forms marks no document dirty and writes no file.           *)
(***************************************************************************)
C7_SecondPassIsNoOp ==
    (PassOver /\ NoFileFails)
        => \A d \in DocsUnderRoot :
               ~FoundReference(files[d].anchors, zkRelativeFromPath)

(***************************************************************************)
(* C8: when the source or the destination of a mv lies outside the         *)
(* resolved root, the run fails with a fatal error, and no rewrite and no  *)
(* rename is performed with that path.                                     *)
(***************************************************************************)
C8_PathContainment ==
    (/\ cmd = "mv" /\ pc \notin {"start", "paths"} /\ ~zkRootErr
     /\ \/ ~Under(zkRootDirectory, absFromPath)
        \/ ~Under(zkRootDirectory, absToPath))
        => /\ writeCalls = {}
           /\ renames = 0
           /\ pc = "done" => exitCode > 0


(***************************************************************************)
(* More vocabulary: the state of a document before and after               *)
(***************************************************************************)
Before(d, i) == files0[d].anchors[i]

\* where a file that existed at the start is after a successful rename
FinalPlace(d) == IF d = absFromPath THEN absToPath ELSE d

\* the rename did not replace this file by the moved one
Survives(d) == d = absFromPath \/ d # absToPath

\* the walk read this document and could write it
Rewritable(d) == Reached(d) /\ files0[d].mode = "rw"

\* the extension-less form of a path that ends in .html
Pretty(rel) == SubSeq(rel, 1, Len(rel) - Len(HtmlExt))

\* the destination as hrefs are to name it: without a final "/index.html"
DestWriteForm ==
    IF HasSuffix(DestRel, SlashIndexHtml)
    THEN SubSeq(DestRel, 1, Len(DestRel) - Len(SlashIndexHtml))
    ELSE DestRel

InsideRoot ==
    Under(zkRootDirectory, absFromPath) /\ Under(zkRootDirectory, absToPath)

MovedAFile ==
    /\ cmd = "mv" /\ pc = "done" /\ exitCode = 0
    /\ absFromPath \in DOMAIN files0

(***************************************************************************)
(* C2, as stated: after a successful mv of a file from P to Q, P and Q     *)
(* being the paths with the root prefix and the root's separator stripped, *)
(* the source is gone, the destination holds the original content, and     *)
(* every anchor whose href was exactly P has href exactly Q.  Stated for   *)
(* the runs in which no file fails, the paths lie inside the root, the     *)
(* destination is new and no index.html, and the source does not link to   *)
(* itself.                                                                 *)
(***************************************************************************)
C2_ExactPathRewrite ==
    (/\ MovedAFile /\ NoFileFails /\ InsideRoot
     /\ ~ExistedAtStart(absToPath) /\ Base(absToPath) # IndexHtml
     /\ ~HasLinkTo(absFromPath, SourceRel))
        => /\ absFromPath \notin DOMAIN files
           /\ absToPath \in DOMAIN files
           /\ files[absToPath] = files0[absFromPath]
           /\ \A d \in DocsUnderRoot : \A i \in DOMAIN files0[d].anchors :
                  Before(d, i) = Anchor(StripRoot(absFromPath))
                      => files[FinalPlace(d)].anchors[i]
                             = Anchor(StripRoot(absToPath))

(***************************************************************************)
(* C2, amended: P is the source path with the first len(root) characters   *)
(* removed, so it keeps the leading separator, and the href written is the *)
(* destination so cut, without a final "/index.html".  The moved file      *)
(* arrives with its content as the pass left it: its own links to P are    *)
(* rewritten.  The guarantee covers the documents the walk reached and     *)
(* could read and write, and that the rename did not replace.              *)
(***************************************************************************)
C2_ExactPathRewriteKeepingSeparator ==
    MovedAFile
        => /\ absFromPath # absToPath => absFromPath \notin DOMAIN files
           /\ absToPath \in DOMAIN files
           /\ DOMAIN files[absToPath].anchors
                  = DOMAIN files0[absFromPath].anchors
           /\ \A i \in DOMAIN files0[absFromPath].anchors :
                  \/ files[absToPath].anchors[i] = Before(absFromPath, i)
                  \/ /\ Before(absFromPath, i).exists
                     /\ Before(absFromPath, i).href \in LinkForms(SourceRel)
                     /\ files[absToPath].anchors[i] = Anchor(DestWriteForm)
           /\ \A d \in DocsUnderRoot : \A i \in DOMAIN files0[d].anchors :
                  (/\ Rewritable(d) /\ Survives(d)
                   /\ Before(d, i) = Anchor(SourceRel))
                      => files[FinalPlace(d)].anchors[i]
                             = Anchor(DestWriteForm)

C2_Witness ==
    /\ MovedAFile
    /\ absFromPath \notin DOMAIN files
    /\ DestWriteForm # SourceRel
    /\ \E d \in DocsUnderRoot : \E i \in DOMAIN files0[d].anchors :
           /\ Before(d, i) = Anchor(SourceRel)
           /\ files[FinalPlace(d)].anchors[i] = Anchor(DestWriteForm)

(***************************************************************************)
(* C3, as stated: when P.html is moved to Q.html, an anchor whose href is  *)
(* the extension-less P is rewritten to the extension-less Q, and one      *)
(* whose href is P.html to Q.html.  Stated for the runs in which no file   *)
(* fails, the paths lie inside the root and Q.html is not an index.html.   *)
(***************************************************************************)
C3_PrettyLinkKeepsItsConvention ==
    (/\ PassOver /\ NoFileFails /\ InsideRoot
     /\ HasSuffix(SourceRel, HtmlExt) /\ HasSuffix(DestRel, HtmlExt)
     /\ Base(DestRel) # IndexHtml)
        => \A d \in DocsUnderRoot : \A i \in DOMAIN files0[d].anchors :
               /\ Before(d, i) = Anchor(Pretty(SourceRel))
                      => files[d].anchors[i] = Anchor(Pretty(DestRel))
               /\ Before(d, i) = Anchor(SourceRel)
                      => files[d].anchors[i] = Anchor(DestRel)

(***************************************************************************)
(* C3, amended: when the moved source ends in .html, an anchor whose href  *)
(* is its extension-less form and an anchor whose href is its exact form   *)
(* are both rewritten to one and the same string, the destination's write  *)
(* form.                                                                   *)
(***************************************************************************)
C3_PrettyLinkGetsTheOneWriteForm ==
    (PassOver /\ HasSuffix(SourceRel, HtmlExt))
        => \A d \in DocsUnderRoot : \A i \in DOMAIN files0[d].anchors :
               (/\ Rewritable(d)
                /\ Before(d, i) \in {Anchor(Pretty(SourceRel)),
                                     Anchor(SourceRel)})
                   => files[d].anchors[i] = Anchor(DestWriteForm)

C3_Witness ==
    /\ PassOver /\ HasSuffix(SourceRel, HtmlExt)
    /\ DestWriteForm \notin {SourceRel, Pretty(SourceRel)}
    /\ \E d \in DocsUnderRoot : \E i, j \in DOMAIN files0[d].anchors :
           /\ Before(d, i) = Anchor(Pretty(SourceRel))
           /\ Before(d, j) = Anchor(SourceRel)
           /\ files[d].anchors[i] = Anchor(DestWriteForm)
           /\ files[d].anchors[j] = Anchor(DestWriteForm)

(***************************************************************************)
(* C4: when the moved source's last segment is index.html, an anchor whose *)
(* href is the source's parent directory path is matched, and whenever the *)
(* destination's last segment is index.html every rewritten href is the    *)
(* destination's parent directory path.  Paths are taken as the code cuts  *)
(* them (with the leading separator), in the runs in which no file fails   *)
(* and the paths lie inside the root.                                      *)
(***************************************************************************)
C4_DirectoryIndexRewrite ==
    (PassOver /\ NoFileFails /\ InsideRoot /\ Base(SourceRel) = IndexHtml)
        => \A d \in DocsUnderRoot : \A i \in DOMAIN files0[d].anchors :
               /\ Before(d, i) = Anchor(Dir(SourceRel)) => d \in writeCalls
               /\ (/\ Base(DestRel) = IndexHtml
                   /\ \/ Before(d, i) = Anchor(Dir(SourceRel))
                      \/ files[d].anchors[i] # Before(d, i))
                      => files[d].anchors[i] = Anchor(Dir(DestRel))


(***************************************************************************)
(* C6, as stated: in the rewrite pass a document is written back if and    *)
(* only if one of its anchors has an href in the source's link-form set;   *)
(* a document without such an anchor, and a file that is no .html file,    *)
(* keeps its content and is never written.                                 *)
(***************************************************************************)
C6_WrittenIffMatching ==
    PassOver
        => \A f \in DOMAIN files0 :
               Under(zkRootDirectory, f)
                   => /\ f \in writeCalls
                          <=> (IsHtmlName(f) /\ HasLinkTo(f, SourceRel))
                      /\ f \notin writeCalls => files[f] = files0[f]

(***************************************************************************)
(* C6, amended: a file is written only if it is a .html document under the *)
(* root with an anchor whose href is in the source's link-form set, and    *)
(* every file not written keeps its content; such a document is written    *)
(* if and only if the walk reaches it and opening and parsing it succeed.  *)
(***************************************************************************)
C6_WrittenOnlyIfMatching ==
    (cmd = "mv" /\ pc \in {"walk", "rename"})
        => \A f \in DOMAIN files0 :
               /\ f \in writeCalls
                      => /\ IsHtmlName(f) /\ Under(zkRootDirectory, f)
                         /\ HasLinkTo(f, SourceRel)
               /\ f \notin writeCalls => files[f] = files0[f]
               /\ (/\ pc = "rename" /\ f \in DocsUnderRoot
                   /\ HasLinkTo(f, SourceRel))
                      => (f \in writeCalls
                              <=> (Reached(f) /\ ~ReadFails(f)))

C6_Witness ==
    /\ PassOver
    /\ \E f, g, h \in DocsUnderRoot :
           /\ HasLinkTo(f, SourceRel) /\ f \in writeCalls
           /\ files[f] # files0[f]
           /\ HasLinkTo(g, SourceRel) /\ g \notin writeCalls
           /\ ~HasLinkTo(h, SourceRel) /\ h \in examined
    /\ \E t \in DOMAIN files0 :
           /\ Under(zkRootDirectory, t) /\ ~IsHtmlName(t)
           /\ HasLinkTo(t, SourceRel)
           /\ t \notin writeCalls

(***************************************************************************)
(* C9, as stated: when opening, parsing or writing one document fails, the *)
(* walk goes on: every other .html document under the root is still        *)
(* examined and, if an anchor matches, rewritten; the rename is attempted  *)
(* all the same.                                                           *)
(***************************************************************************)
C9_WalkSurvivesFailures ==
    (cmd = "mv" /\ pc \in {"rename", "done"} /\ visited # {})
        => /\ \A d \in DocsUnderRoot :
                  /\ d \in visited
                  /\ ~ReadFails(d) => d \in examined
                  /\ (~ReadFails(d) /\ HasLinkTo(d, SourceRel))
                         => d \in writeCalls
           /\ pc = "done" => renames = 1

(***************************************************************************)
(* C9, amended: a failing write does not stop the walk, but the first      *)
(* document that fails to open or parse ends it: the entries after it are  *)
(* not visited, so no later document is examined or rewritten.  The rename *)
(* is attempted all the same.                                              *)
(***************************************************************************)
C9_WalkStopsAtFirstReadFailure ==
    (cmd = "mv" /\ pc \in {"rename", "done"} /\ visited # {})
        => /\ visited = {e \in dirs \cup DOMAIN files0 :
                             Under(zkRootDirectory, e) /\ Reached(e)}
           /\ examined = {d \in DocsUnderRoot : Reached(d) /\ ~ReadFails(d)}
           /\ writeCalls = {d \in examined : HasLinkTo(d, SourceRel)}
           /\ pc = "done" => renames = 1

C9_Witness ==
    /\ cmd = "mv" /\ pc = "done" /\ renames = 1
    /\ \E d, e, w \in DocsUnderRoot :
           /\ ReadFails(d) /\ d \in visited
           /\ HasLinkTo(e, SourceRel) /\ e \notin visited
           /\ files0[w].mode = "rw" /\ w \in writeCalls

\* the other half of C9: a failing write leaves the walk going
C9_WitnessWriteFails ==
    /\ cmd = "mv" /\ pc = "done" /\ renames = 1
    /\ \E d, e \in DocsUnderRoot :
           /\ files0[d].mode = "ro" /\ d \in writeCalls
           /\ WalkBefore(d, e) /\ e \in writeCalls

(***************************************************************************)
(* C10: the rename is attempted once, and only when the rewrite pass is    *)
(* over: no document is written after it.  When it fails the run ends with *)
(* exit code 1 and the documents keep what the pass wrote into them.       *)
(***************************************************************************)
C10_RewriteThenRename ==
    /\ [](cmd = "mv"
            => /\ renames <= 1
               /\ renames = 1 => (pc = "done" /\ walk = <<>> /\ visited # {})
               /\ (pc = "done" /\ visited # {}) => renames = 1
               /\ (renames = 1 /\ ~renameOk) => exitCode = 1
               /\ (renames = 1 /\ renameOk) => exitCode = 0)
    /\ [][/\ renames' # renames
             => /\ pc = "rename" /\ renames' = renames + 1
                /\ writeCalls' = writeCalls
                /\ ~renameOk' => files' = files
          /\ renames >= 1 => (files' = files /\ writeCalls' = writeCalls)
         ]_vars

C10_Witness ==
    /\ cmd = "mv" /\ pc = "done" /\ renames = 1 /\ ~renameOk
    /\ exitCode = 1
    /\ \E d \in DocsUnderRoot :
           /\ d \in writeCalls
           /\ files[d] # files0[d]

====
